---- MODULE Spec2Model ----
(***************************************************************************)
(* Model of the pump.fun chat MCP bridge (src/src/mcp-server.ts).          *)
(*                                                                         *)
(* The entry point reads the room's token from the environment and either  *)
(* exits or constructs one PumpFunChatServer, which owns one               *)
(* PumpChatClient (the collaborator), a connection flag and a message      *)
(* buffer.  The entry point, every collaborator event and every CallTool   *)
(* request are one turn of the single-threaded event loop each and one     *)
(* action of this model each.                                              *)
(***************************************************************************)
EXTENDS Integers, Sequences, FiniteSets, TLC

\* ------------------------------------------------------------------------
\* Bounds of the model
\* ------------------------------------------------------------------------

\* "message" events delivered beyond the buffer capacity.
MaxOverflow == 3

\* Leading "message" events that may repeat the message before them; the
\* room's history may also arrive among them.  Later "message" events each
\* carry the room's next message.
MaxVaried == 2

\* Length of the longest "messageHistory" payload.
MaxHistory == 1

\* ------------------------------------------------------------------------
\* Program constants
\* ------------------------------------------------------------------------

\* mcp-server.ts:135  if (this.messageBuffer.length > 1000)
BufferCapacity == 1000

\* mcp-server.ts:112  messageHistoryLimit: 100
MessageHistoryLimit == 100

\* mcp-server.ts:111  username: "mcp-client"
ClientUsername == "mcp-client"

\* mcp-server.ts:199-237  the tool catalog answered to ListTools
ToolCatalog ==
    << "PumpFunChat_ReadMessages", "PumpFunChat_GetLatestMessage",
       "PumpFunChat_SendMessage", "PumpFunChat_GetStatus" >>

\* ------------------------------------------------------------------------
\* Inputs
\* ------------------------------------------------------------------------

\* process.env.PUMP_FUN_TOKEN of a process that passes the bootstrap check
Tokens == {"tokenA"}

\* authors and texts of the chat messages the room delivers
Users == << "alice", "bob" >>
Texts == << "gm", "wagmi", "lfg" >>

\* `limit` values a ReadMessages request may carry
Limits == {-1, 0, 3}

\* `message` values a SendMessage request may carry
SendTexts == {"hello", ""}

\* payloads of a "serverError" event
ServerErrors == {"Authentication required", "Rate limited"}

\* a tool name outside the catalog
UnknownToolName == "PumpFunChat_DeleteMessages"

\* ------------------------------------------------------------------------
\* State
\* ------------------------------------------------------------------------

VARIABLES
    process,        \* the operating-system process: env, argv, how far it got
    stderr,         \* the lines the latest turn wrote with console.error
    server,         \* PumpFunChatServer.server, the MCP Server instance
    instances,      \* how many PumpChatClient instances were constructed so far
    token,          \* PumpFunChatServer.token
    client,         \* PumpFunChatServer.client, the PumpChatClient instance
    isConnected,    \* PumpFunChatServer.isConnected
    messageBuffer,  \* PumpFunChatServer.messageBuffer
    received,       \* the payload of every "message" event so far, in arrival order
    request,        \* the CallTool request handled in the latest turn, if any
    response,       \* what that request was answered with
    sends           \* the texts passed to client.sendMessage in the latest turn

vars ==
    << process, stderr, server, instances, token, client, isConnected,
       messageBuffer, received, request, response, sends >>

\* the latest turn handled a collaborator event, not a CallTool request
NoRequest == [none |-> TRUE]
NoResponse == [none |-> TRUE]

\* ------------------------------------------------------------------------
\* Sequences as JavaScript arrays
\* ------------------------------------------------------------------------

Min(a, b) == IF a < b THEN a ELSE b
Max(a, b) == IF a > b THEN a ELSE b

\* Array.prototype.push followed by the array itself
Push(arr, x) == Append(arr, x)

\* Shift removing the newest element instead (Array.prototype.pop)
ShiftNewest(arr) == IF Len(arr) = 0 THEN arr ELSE SubSeq(arr, 1, Len(arr) - 1)

\* Array.prototype.shift: the array without its first element
Shift(arr) == IF Len(arr) = 0 THEN arr ELSE SubSeq(arr, 2, Len(arr))

\* the last k elements of arr (all of them when k >= Len(arr), none when k <= 0)
LastN(arr, k) == SubSeq(arr, Len(arr) - Max(0, Min(k, Len(arr))) + 1, Len(arr))

\* ------------------------------------------------------------------------
\* JavaScript values that cross the tool boundary
\* ------------------------------------------------------------------------

JsUndefined == [type |-> "undefined"]
JsNumber(n) == [type |-> "number", value |-> n]
JsString(str) == [type |-> "string", value |-> str]
JsNull == [type |-> "null"]

\* obj[key] of a loosely typed record: undefined when the key is missing
Prop(obj, key) == IF key \in DOMAIN obj THEN obj[key] ELSE JsUndefined

\* `${v}` inside a template literal
ToTemplateString(v) ==
    CASE v.type = "undefined" -> "undefined"
      [] v.type = "null" -> "null"
      [] OTHER -> v.value

\* new Date(timestamp).toLocaleTimeString(): the time of day to the second.
\* Timestamps count half seconds, so two of them can print alike.
ToLocaleTimeString(timestamp) == (timestamp \div 2) % 86400

\* ------------------------------------------------------------------------
\* Chat messages
\* ------------------------------------------------------------------------

\* The room's messages are numbered 0, 1, 2, ...; a message is held by its
\* number and ChatMessage gives its fields.  Equal numbers are equal
\* messages, field by field.
ChatMessage(m) ==
    [ username |-> Users[(m % Len(Users)) + 1],
      message |-> Texts[(m % Len(Texts)) + 1],
      timestamp |-> m \div 2 ]

\* ------------------------------------------------------------------------
\* The collaborator: PumpChatClient of the pump-chat-client package
\* ------------------------------------------------------------------------

\* new PumpChatClient({ roomId, username, messageHistoryLimit })
PumpChatClient(options) ==
    [ roomId |-> options.roomId,
      username |-> options.username,
      messageHistoryLimit |-> options.messageHistoryLimit,
      messageHistory |-> << >>,
      connectCalls |-> 0,
      disconnectCalls |-> 0 ]

\* client.connect()
ClientConnect(c) == [c EXCEPT !.connectCalls = @ + 1]

\* the collaborator keeps each new message in its own history, bounded by
\* messageHistoryLimit, before it emits "message"
ClientKeepMessage(c, message) ==
    [c EXCEPT !.messageHistory =
        LastN(Append(c.messageHistory, message), c.messageHistoryLimit)]

\* the collaborator loads the room's history into its own store before it
\* emits "messageHistory"
ClientLoadHistory(c, messages) ==
    [c EXCEPT !.messageHistory = LastN(messages, c.messageHistoryLimit)]

\* client.getMessages(limit): the most recent `limit` messages of the
\* collaborator's store in chronological order, all of them when limit is
\* undefined, none when limit is 0 or negative
ClientGetMessages(c, limit) ==
    IF limit.type = "undefined"
    THEN c.messageHistory
    ELSE LastN(c.messageHistory, limit.value)

\* client.getLatestMessage(): the tail of the collaborator's store, or null
ClientGetLatestMessage(c) ==
    IF Len(c.messageHistory) = 0
    THEN JsNull
    ELSE [message |-> c.messageHistory[Len(c.messageHistory)]]

\* ------------------------------------------------------------------------
\* Construction
\* ------------------------------------------------------------------------

\* ConnectToChat with roomId and username swapped
ConnectToChatAsUsername(tok) ==
    ClientConnect(PumpChatClient(
        [ roomId |-> ClientUsername,
          username |-> tok,
          messageHistoryLimit |-> MessageHistoryLimit ]))

\* ConnectToChat letting the collaborator keep as many messages as the buffer
ConnectToChatKeepingCapacity(tok) ==
    ClientConnect(PumpChatClient(
        [ roomId |-> tok,
          username |-> ClientUsername,
          messageHistoryLimit |-> BufferCapacity ]))

\* connectToChat(): new PumpChatClient({...}) ... this.client.connect()
ConnectToChat(tok) ==
    ClientConnect(PumpChatClient(
        [ roomId |-> tok,
          username |-> ClientUsername,
          messageHistoryLimit |-> MessageHistoryLimit ]))

\* this.server = new Server(...); this.setupHandlers()
SetupHandlers == [handlers |-> {"tools/list", "tools/call"}, transport |-> FALSE]

\* await this.server.connect(transport)
ServerConnect(srv) == [srv EXCEPT !.transport = TRUE]

\* ------------------------------------------------------------------------
\* The process and its entry point
\* ------------------------------------------------------------------------

\* How the process is launched: PUMP_FUN_TOKEN in the environment or not,
\* the token as a command-line argument or not.
Launches ==
    { [env |-> JsString(t), argv |-> << >>] : t \in Tokens }
        \cup { [env |-> JsUndefined, argv |-> << >>],
               [env |-> JsString(""), argv |-> << >>] }
        \cup { [env |-> JsUndefined, argv |-> << t >>] : t \in Tokens }

\* a line of stderr: the literal or the template of the console.error call
Line(text) == [text |-> text]
LineOf(text, arg) == [text |-> text, arg |-> arg]

\* Truthy for a value that is a string whatever it holds
TruthyWhenString(v) == v.type = "string"

\* JavaScript truthiness of process.env.PUMP_FUN_TOKEN (undefined or a string)
Truthy(v) == v.type = "string" /\ v.value # ""

\* process.exit(code)
Exit(proc, code) == [proc EXCEPT !.status = "exited", !.exitCode = code]

\* the process is past its entry point and has not exited
Serving == process.status = "serving"

\* The process starts: no PumpFunChatServer exists yet.  The variables of
\* its fields hold the field initialisers, token the empty string.
Init ==
    /\ \E launch \in Launches :
         process = [env |-> launch.env, argv |-> launch.argv,
                    status |-> "launched", exitCode |-> 0]
    /\ stderr = << >>
    /\ server = JsNull
    /\ instances = 0
    /\ token = ""
    /\ client = JsNull
    /\ isConnected = FALSE
    /\ messageBuffer = << >>
    /\ received = << >>
    /\ request = NoRequest
    /\ response = NoResponse
    /\ sends = << >>

\* The entry point: const token = process.env.PUMP_FUN_TOKEN; if (!token)
\* exit(1); new PumpFunChatServer(token); server.run().catch(exit(1)).
\* The constructor sets the fields, registers the handlers and calls
\* connectToChat(); run() connects the stdio transport, which may fail.
Main ==
    /\ process.status = "launched"
    /\ IF ~Truthy(process.env)
       THEN /\ process' = Exit(process, 1)
            /\ stderr' = << Line("Error: PUMP_FUN_TOKEN environment variable is required"),
                            Line("Example: PUMP_FUN_TOKEN=... pump-fun-chat-mcp") >>
            /\ UNCHANGED << server, instances, token, client, isConnected, messageBuffer >>
       ELSE /\ token' = process.env.value
            /\ client' = ConnectToChat(process.env.value)
            /\ instances' = instances + 1
            /\ isConnected' = FALSE
            /\ messageBuffer' = << >>
            /\ \E started \in BOOLEAN :
                 IF started
                 THEN /\ server' = ServerConnect(SetupHandlers)
                      /\ process' = [process EXCEPT !.status = "serving"]
                      /\ stderr' = << LineOf("Connecting to pump.fun chat for token: ${this.token}", process.env.value),
                                      LineOf("Pump.fun Chat MCP server running for token: ${this.token}", process.env.value) >>
                 ELSE /\ server' = SetupHandlers
                      /\ process' = Exit(process, 1)
                      /\ stderr' = << LineOf("Connecting to pump.fun chat for token: ${this.token}", process.env.value),
                                      Line("Failed to start MCP server:") >>
    /\ UNCHANGED << received, request, response, sends >>

\* ------------------------------------------------------------------------
\* Collaborator events (connectToChat's listeners)
\* ------------------------------------------------------------------------

\* a turn that handles an event answers no request and sends nothing
EventTurn ==
    /\ Serving
    /\ UNCHANGED << process, server, instances >>
    /\ request' = NoRequest
    /\ response' = NoResponse
    /\ sends' = << >>

\* OnConnected starting the session with an empty buffer
OnConnectedClears ==
    /\ EventTurn
    /\ isConnected' = TRUE
    /\ messageBuffer' = << >>
    /\ stderr' = << LineOf("Successfully connected to chat room for ${this.token}", token) >>
    /\ UNCHANGED << token, client, received >>

\* this.client.on("connected", ...)
OnConnected ==
    /\ EventTurn
    /\ isConnected' = TRUE
    /\ stderr' = << LineOf("Successfully connected to chat room for ${this.token}", token) >>
    /\ UNCHANGED << token, client, messageBuffer, received >>

\* BufferAfterMessage without the eviction
BufferAfterMessageNoShift(buffer, message) == Push(buffer, message)

\* this.messageBuffer.push(message); if (length > 1000) this.messageBuffer.shift()
BufferAfterMessage(buffer, message) ==
    LET pushed == Push(buffer, message)
    IN  IF Len(pushed) > BufferCapacity THEN Shift(pushed) ELSE pushed

\* the latest message the room delivered
LatestDelivered == IF Len(received) = 0 THEN 0 ELSE received[Len(received)]

\* the next delivery is the room's next message (1) or, among the first
\* MaxVaried deliveries, the one before it once more (0)
Steps == IF 0 < Len(received) /\ Len(received) < MaxVaried THEN {0, 1} ELSE {1}

\* OnMessage buffering only while connected
OnMessageWhenConnected ==
    /\ EventTurn
    /\ Len(received) < BufferCapacity + MaxOverflow
    /\ \E step \in Steps :
         LET message == LatestDelivered + step
         IN  /\ client' = ClientKeepMessage(client, message)
             /\ messageBuffer' = IF isConnected
                                 THEN BufferAfterMessage(messageBuffer, message)
                                 ELSE messageBuffer
             /\ received' = Append(received, message)
             /\ stderr' = << LineOf("New message from ${message.username}: ${message.message}", message) >>
    /\ UNCHANGED << token, isConnected >>

\* this.client.on("message", ...)
OnMessage ==
    /\ EventTurn
    /\ Len(received) < BufferCapacity + MaxOverflow
    /\ \E step \in Steps :
         LET message == LatestDelivered + step
         IN  /\ client' = ClientKeepMessage(client, message)
             /\ messageBuffer' = BufferAfterMessage(messageBuffer, message)
             /\ received' = Append(received, message)
             /\ stderr' = << LineOf("New message from ${message.username}: ${message.message}", message) >>
    /\ UNCHANGED << token, isConnected >>

\* the room's history as the collaborator delivers it
Histories == { [i \in 1..k |-> i - 1] : k \in 0..MaxHistory }

\* OnMessageHistory taking the history as proof of a live connection
OnMessageHistoryConnects ==
    /\ EventTurn
    /\ Len(received) < MaxVaried
    /\ \E messages \in Histories :
         /\ client' = ClientLoadHistory(client, messages)
         /\ stderr' = << LineOf("Received ${messages.length} historical messages", Len(messages)) >>
    /\ isConnected' = TRUE
    /\ UNCHANGED << token, messageBuffer, received >>

\* OnMessageHistory copying the history into the bridge's buffer
OnMessageHistoryBuffered ==
    /\ EventTurn
    /\ Len(received) < MaxVaried
    /\ \E messages \in Histories :
         /\ client' = ClientLoadHistory(client, messages)
         /\ messageBuffer' = messageBuffer \o messages
         /\ stderr' = << LineOf("Received ${messages.length} historical messages", Len(messages)) >>
    /\ UNCHANGED << token, isConnected, received >>

\* this.client.on("messageHistory", ...)
OnMessageHistory ==
    /\ EventTurn
    /\ Len(received) < MaxVaried
    /\ \E messages \in Histories :
         /\ client' = ClientLoadHistory(client, messages)
         /\ stderr' = << LineOf("Received ${messages.length} historical messages", Len(messages)) >>
    /\ UNCHANGED << token, isConnected, messageBuffer, received >>

\* this.client.on("error", ...)
OnError ==
    /\ EventTurn
    /\ stderr' = << Line("Chat error:") >>
    /\ UNCHANGED << token, client, isConnected, messageBuffer, received >>

\* what the "serverError" listener writes for a payload
ServerErrorLines(error) ==
    << LineOf("Server error:", error) >>
        \o IF error = "Authentication required"
           THEN << Line("Note: Sending messages requires authentication with pump.fun") >>
           ELSE << >>

\* OnServerError taking a server error for the end of the connection
OnServerErrorDisconnects ==
    /\ EventTurn
    /\ \E error \in ServerErrors : stderr' = ServerErrorLines(error)
    /\ isConnected' = FALSE
    /\ UNCHANGED << token, client, messageBuffer, received >>

\* this.client.on("serverError", ...): both payloads are only logged
OnServerError ==
    /\ EventTurn
    /\ \E error \in ServerErrors : stderr' = ServerErrorLines(error)
    /\ UNCHANGED << token, client, isConnected, messageBuffer, received >>

\* OnDisconnected that only logs: the flag stays as it was
OnDisconnectedLatched ==
    /\ EventTurn
    /\ stderr' = << Line("Disconnected from chat room") >>
    /\ UNCHANGED << token, client, isConnected, messageBuffer, received >>

\* OnDisconnected that calls client.connect() again
OnDisconnectedReconnects ==
    /\ EventTurn
    /\ isConnected' = FALSE
    /\ client' = ClientConnect(client)
    /\ stderr' = << Line("Disconnected from chat room") >>
    /\ UNCHANGED << token, messageBuffer, received >>

\* this.client.on("disconnected", ...)
OnDisconnected ==
    /\ EventTurn
    /\ isConnected' = FALSE
    /\ stderr' = << Line("Disconnected from chat room") >>
    /\ UNCHANGED << token, client, messageBuffer, received >>

\* ------------------------------------------------------------------------
\* Tool results
\* ------------------------------------------------------------------------

\* return { content: [{ type: "text", text }] }
TextResult(text) == [content |-> << [type |-> "text", text |-> text] >>]

\* a handler that throws: the request is answered with an RPC-level error
RpcError(error) == [error |-> error]

IsTextResult(r) == "content" \in DOMAIN r
IsRpcError(r) == "error" \in DOMAIN r

\* what a handler did: its answer and what it passed to client.sendMessage
Outcome(r, sent) == [response |-> r, sends |-> sent]

\* the fixed texts of the handlers
NotConnectedReadText ==
    [template |-> "Not connected to the chat room. The connection may still be establishing or has failed."]
NoMessagesReadText ==
    [template |-> "No messages available. The chat might be quiet or still loading."]
NotConnectedLatestText == [template |-> "Not connected to the chat room."]
NoMessagesLatestText == [template |-> "No messages available."]
CannotSendText == [template |-> "Cannot send message - not connected to the chat room."]

\* `[${new Date(msg.timestamp).toLocaleTimeString()}] ${msg.username}: ${msg.message}`
FormatMessage(msg) ==
    [ time |-> ToLocaleTimeString(ChatMessage(msg).timestamp),
      username |-> ChatMessage(msg).username,
      message |-> ChatMessage(msg).message ]

\* messages.map(msg => ...).join("\n")
FormatMessages(messages) == [i \in 1..Len(messages) |-> FormatMessage(messages[i])]

\* ------------------------------------------------------------------------
\* Tool handlers
\* ------------------------------------------------------------------------

\* a loosely typed argument record; request.params.arguments is undefined
\* when the request carries none
JsObject(fields) == [type |-> "object", fields |-> fields]
NoFields == [key \in {} |-> JsUndefined]

\* args.key: a TypeError when args is undefined
CanReadProperty(args) == args.type = "object"
TypeErrorReading(key) ==
    [name |-> "TypeError", template |-> "Cannot read properties of undefined", key |-> key]

\* !v of a value that is an object or null
IsNull(v) == "type" \in DOMAIN v /\ v.type = "null"

\* NotConnected without the test of the flag
NotConnectedClientOnly == IsNull(client)

\* if (!this.client || !this.isConnected)
NotConnected == IsNull(client) \/ ~isConnected

\* handleReadMessages serving the bridge's own buffer
handleReadMessagesFromBuffer(args) ==
    IF NotConnected
    THEN Outcome(TextResult(NotConnectedReadText), << >>)
    ELSE IF ~CanReadProperty(args)
    THEN Outcome(RpcError(TypeErrorReading("limit")), << >>)
    ELSE LET limit == Prop(args.fields, "limit")
             messages == IF limit.type = "undefined"
                         THEN messageBuffer
                         ELSE LastN(messageBuffer, limit.value)
         IN  IF Len(messages) = 0
             THEN Outcome(TextResult(NoMessagesReadText), << >>)
             ELSE Outcome(TextResult(
                      [ template |-> "Messages from ${token} (showing ${n} messages):\n\n${lines}",
                        token |-> token,
                        n |-> Len(messages),
                        lines |-> FormatMessages(messages) ]), << >>)

\* handleReadMessages asking the collaborator for all its messages
handleReadMessagesUnlimited(args) ==
    IF NotConnected
    THEN Outcome(TextResult(NotConnectedReadText), << >>)
    ELSE IF ~CanReadProperty(args)
    THEN Outcome(RpcError(TypeErrorReading("limit")), << >>)
    ELSE LET messages == ClientGetMessages(client, JsUndefined)
         IN  IF Len(messages) = 0
             THEN Outcome(TextResult(NoMessagesReadText), << >>)
             ELSE Outcome(TextResult(
                      [ template |-> "Messages from ${token} (showing ${n} messages):\n\n${lines}",
                        token |-> token,
                        n |-> Len(messages),
                        lines |-> FormatMessages(messages) ]), << >>)

\* handleReadMessages(args)
handleReadMessages(args) ==
    IF NotConnected
    THEN Outcome(TextResult(NotConnectedReadText), << >>)
    ELSE IF ~CanReadProperty(args)
    THEN Outcome(RpcError(TypeErrorReading("limit")), << >>)
    ELSE LET messages == ClientGetMessages(client, Prop(args.fields, "limit"))
         IN  IF Len(messages) = 0
             THEN Outcome(TextResult(NoMessagesReadText), << >>)
             ELSE Outcome(TextResult(
                      [ template |-> "Messages from ${token} (showing ${n} messages):\n\n${lines}",
                        token |-> token,
                        n |-> Len(messages),
                        lines |-> FormatMessages(messages) ]), << >>)

\* handleGetLatestMessage serving the bridge's own buffer
handleGetLatestMessageFromBuffer ==
    IF NotConnected
    THEN Outcome(TextResult(NotConnectedLatestText), << >>)
    ELSE IF Len(messageBuffer) = 0
    THEN Outcome(TextResult(NoMessagesLatestText), << >>)
    ELSE Outcome(TextResult(
             [ template |-> "Latest message:\n${line}",
               line |-> FormatMessage(messageBuffer[Len(messageBuffer)]) ]), << >>)

\* handleGetLatestMessage()
handleGetLatestMessage ==
    IF NotConnected
    THEN Outcome(TextResult(NotConnectedLatestText), << >>)
    ELSE LET latestMessage == ClientGetLatestMessage(client)
         IN  IF IsNull(latestMessage)
             THEN Outcome(TextResult(NoMessagesLatestText), << >>)
             ELSE Outcome(TextResult(
                      [ template |-> "Latest message:\n${line}",
                        line |-> FormatMessage(latestMessage.message) ]), << >>)

\* handleSendMessage forwarding before it looks at the connection
handleSendMessageUnguarded(args) ==
    IF ~CanReadProperty(args)
    THEN Outcome(RpcError(TypeErrorReading("message")), << >>)
    ELSE LET message == Prop(args.fields, "message")
         IN  IF NotConnected
             THEN Outcome(TextResult(CannotSendText), << message >>)
             ELSE Outcome(TextResult(
                      [ template |-> "Message sent: ${message}\nNote: Messages require pump.fun authentication to be delivered.",
                        message |-> ToTemplateString(message) ]), << message >>)

\* handleSendMessage forwarding the text a second time
handleSendMessageTwice(args) ==
    IF NotConnected
    THEN Outcome(TextResult(CannotSendText), << >>)
    ELSE IF ~CanReadProperty(args)
    THEN Outcome(RpcError(TypeErrorReading("message")), << >>)
    ELSE LET message == Prop(args.fields, "message")
         IN  Outcome(TextResult(
                 [ template |-> "Message sent: ${message}\nNote: Messages require pump.fun authentication to be delivered.",
                   message |-> ToTemplateString(message) ]), << message, message >>)

\* handleSendMessage(args)
handleSendMessage(args) ==
    IF NotConnected
    THEN Outcome(TextResult(CannotSendText), << >>)
    ELSE IF ~CanReadProperty(args)
    THEN Outcome(RpcError(TypeErrorReading("message")), << >>)
    ELSE LET message == Prop(args.fields, "message")
         IN  Outcome(TextResult(
                 [ template |-> "Message sent: ${message}\nNote: Messages require pump.fun authentication to be delivered.",
                   message |-> ToTemplateString(message) ]), << message >>)

\* `${this.isConnected ? 'Connected' : 'Disconnected'}`
ConnectionLabel(connected) == IF connected THEN "Connected" ELSE "Disconnected"

\* handleGetStatus counting the collaborator's store
handleGetStatusClientCount ==
    Outcome(TextResult(
        [ template |-> "Token: ${token}\nConnection Status: ${label}\nMessages in buffer: ${n}",
          token |-> token,
          label |-> ConnectionLabel(isConnected),
          n |-> IF IsNull(client) THEN 0 ELSE Len(client.messageHistory) ]), << >>)

\* handleGetStatus()
handleGetStatus ==
    Outcome(TextResult(
        [ template |-> "Token: ${token}\nConnection Status: ${label}\nMessages in buffer: ${n}",
          token |-> token,
          label |-> ConnectionLabel(isConnected),
          n |-> Len(messageBuffer) ]), << >>)

\* throw new Error(`Unknown tool: ${request.params.name}`)
UnknownToolError(name) == [name |-> "Error", template |-> "Unknown tool: ${name}", tool |-> name]

\* request.params.arguments
Arguments(req) == Prop(req.params, "arguments")

\* Dispatch with the GetStatus case misspelt
DispatchMisspelt(req) ==
    CASE req.params.name = "PumpFunChat_ReadMessages" ->
            handleReadMessages(Arguments(req))
      [] req.params.name = "PumpFunChat_GetLatestMessage" ->
            handleGetLatestMessage
      [] req.params.name = "PumpFunChat_SendMessage" ->
            handleSendMessage(Arguments(req))
      [] req.params.name = "PumpFunChat_Status" ->
            handleGetStatus
      [] OTHER ->
            Outcome(RpcError(UnknownToolError(req.params.name)), << >>)

\* the CallToolRequestSchema handler: switch (request.params.name)
Dispatch(req) ==
    CASE req.params.name = "PumpFunChat_ReadMessages" ->
            handleReadMessages(Arguments(req))
      [] req.params.name = "PumpFunChat_GetLatestMessage" ->
            handleGetLatestMessage
      [] req.params.name = "PumpFunChat_SendMessage" ->
            handleSendMessage(Arguments(req))
      [] req.params.name = "PumpFunChat_GetStatus" ->
            handleGetStatus
      [] OTHER ->
            Outcome(RpcError(UnknownToolError(req.params.name)), << >>)

\* CallTool keeping what it sent in the bridge's buffer
CallToolBuffersSent(req) ==
    /\ Serving
    /\ "tools/call" \in server.handlers
    /\ request' = req
    /\ LET outcome == Dispatch(req)
       IN  /\ response' = outcome.response
           /\ sends' = outcome.sends
           /\ messageBuffer' = messageBuffer \o outcome.sends
    /\ stderr' = << >>
    /\ UNCHANGED << process, server, instances >>
    /\ UNCHANGED << token, client, isConnected, received >>

\* CallTool whose handler yields before it returns: a "disconnected" event
\* is handled in between
CallToolAcrossDisconnect(req) ==
    /\ Serving
    /\ "tools/call" \in server.handlers
    /\ request' = req
    /\ LET outcome == Dispatch(req)
       IN  /\ response' = outcome.response
           /\ sends' = outcome.sends
    /\ isConnected' = FALSE
    /\ stderr' = << >>
    /\ UNCHANGED << process, server, instances >>
    /\ UNCHANGED << token, client, messageBuffer, received >>

\* one CallTool request, handled to completion in its turn
CallTool(req) ==
    /\ Serving
    /\ "tools/call" \in server.handlers
    /\ request' = req
    /\ LET outcome == Dispatch(req)
       IN  /\ response' = outcome.response
           /\ sends' = outcome.sends
    /\ stderr' = << >>
    /\ UNCHANGED << process, server, instances >>
    /\ UNCHANGED << token, client, isConnected, messageBuffer, received >>

\* requests by shape of their argument record
Bare(name) == [params |-> [name |-> name]]
WithArguments(name, fields) == [params |-> [name |-> name, arguments |-> JsObject(fields)]]

CallReadMessages ==
    \/ CallTool(Bare("PumpFunChat_ReadMessages"))
    \/ CallTool(WithArguments("PumpFunChat_ReadMessages", NoFields))
    \/ \E limit \in Limits :
         CallTool(WithArguments("PumpFunChat_ReadMessages", [limit |-> JsNumber(limit)]))

CallGetLatestMessage ==
    CallTool(Bare("PumpFunChat_GetLatestMessage"))

CallSendMessage ==
    \/ CallTool(Bare("PumpFunChat_SendMessage"))
    \/ CallTool(WithArguments("PumpFunChat_SendMessage", NoFields))
    \/ \E text \in SendTexts :
         CallTool(WithArguments("PumpFunChat_SendMessage", [message |-> JsString(text)]))

CallGetStatus ==
    CallTool(WithArguments("PumpFunChat_GetStatus", NoFields))

CallUnknownTool ==
    CallTool(WithArguments(UnknownToolName, NoFields))

\* ------------------------------------------------------------------------
\* The event loop
\* ------------------------------------------------------------------------

Next ==
    \/ Main
    \/ OnConnected
    \/ OnMessage
    \/ OnMessageHistory
    \/ OnError
    \/ OnServerError
    \/ OnDisconnected
    \/ CallReadMessages
    \/ CallGetLatestMessage
    \/ CallSendMessage
    \/ CallGetStatus
    \/ CallUnknownTool

Spec == Init /\ [][Next]_vars

\* ------------------------------------------------------------------------
\* Reading the latest turn
\* ------------------------------------------------------------------------

\* the latest turn handled a CallTool request for the tool `name`
Called(name) == "params" \in DOMAIN request /\ request.params.name = name

\* the latest turn handled a CallTool request
CalledAny == "params" \in DOMAIN request

\* that request carried an argument record
WithRecord == "arguments" \in DOMAIN request.params

\* the fields of that record
Fields == request.params.arguments.fields

\* the text of a text result
TextOf(r) == r.content[1].text

\* the names of the catalog
CatalogNames == { ToolCatalog[i] : i \in 1..Len(ToolCatalog) }

\* how many messages a window over `store` holds for the latest request
WindowSize(store) ==
    IF "limit" \in DOMAIN Fields
    THEN Max(0, Min(Fields.limit.value, Len(store)))
    ELSE Len(store)

\* `lines` are the k most recent messages of `store`, oldest first
IsWindowOf(lines, store, k) ==
    /\ Len(lines) = k
    /\ \A i \in 1..k : lines[i] = FormatMessage(store[Len(store) - k + i])

\* the answer lists exactly the k most recent messages of `store`
ListsWindowOf(store, k) ==
    /\ IsTextResult(response)
    /\ "lines" \in DOMAIN TextOf(response)
    /\ TextOf(response).token = token
    /\ TextOf(response).n = k
    /\ IsWindowOf(TextOf(response).lines, store, k)

\* the answer shows exactly the message m as the latest one
ShowsLatest(m) ==
    /\ IsTextResult(response)
    /\ "line" \in DOMAIN TextOf(response)
    /\ TextOf(response).line = FormatMessage(m)

\* ------------------------------------------------------------------------
\* Claims
\* ------------------------------------------------------------------------

\* C1: at the end of every turn, whatever events and tool calls came before,
\* the message buffer holds at most 1000 messages.
C1_BufferBounded == Len(messageBuffer) <= BufferCapacity

\* C1 witness: more than 1000 messages were delivered and the buffer is full.
C1_Witness ==
    /\ Len(received) > BufferCapacity
    /\ Len(messageBuffer) = BufferCapacity

\* C2: after n "message" events the buffer is exactly the last min(n, 1000)
\* messages delivered, in arrival order, repeated messages included.
C2_BufferIsLatestReceived ==
    /\ Len(messageBuffer) = Min(Len(received), BufferCapacity)
    /\ \A i \in 1..Len(messageBuffer) :
         messageBuffer[i] = received[Len(received) - Len(messageBuffer) + i]

\* C2 witness: 1001 messages were delivered, the first two of them equal;
\* the buffer holds #2..#1001 and #1 is the one that left.
C2_Witness ==
    /\ Len(received) = BufferCapacity + 1
    /\ received[1] = received[2]
    /\ messageBuffer = SubSeq(received, 2, BufferCapacity + 1)

C5_NotConnectedIsText ==
    ~isConnected =>
        /\ Called("PumpFunChat_ReadMessages") =>
             /\ response = TextResult(NotConnectedReadText)
             /\ ~IsRpcError(response)
        /\ Called("PumpFunChat_GetLatestMessage") =>
             /\ response = TextResult(NotConnectedLatestText)
             /\ ~IsRpcError(response)

\* C5 witness: a ReadMessages request without an argument record is answered
\* "not connected" while the buffer holds messages and the state is
\* Disconnected.
C5_Witness ==
    /\ ~isConnected
    /\ Len(messageBuffer) > 0
    /\ Called("PumpFunChat_ReadMessages")
    /\ ~WithRecord
    /\ response = TextResult(NotConnectedReadText)

\* C6: a SendMessage request handled while Disconnected is answered with the
\* "cannot send" text and passes nothing to the collaborator's send; in every
\* turn, the collaborator's send is invoked only if the state is Connected.
C6_NoSendWhileDisconnected ==
    /\ (Called("PumpFunChat_SendMessage") /\ ~isConnected) =>
          /\ response = TextResult(CannotSendText)
          /\ sends = << >>
    /\ Len(sends) > 0 => isConnected

\* C6 witness: a SendMessage request with a text is refused while
\* Disconnected.
C6_Witness ==
    /\ Called("PumpFunChat_SendMessage")
    /\ ~isConnected
    /\ WithRecord
    /\ "message" \in DOMAIN Fields
    /\ response = TextResult(CannotSendText)
    /\ sends = << >>

\* C7: a SendMessage request that gives a text, handled while Connected,
\* passes that text unchanged to the collaborator's send exactly once and is
\* answered with the acknowledgment in the same turn.
C7_SendsOnceAndAnswers ==
    ( /\ Called("PumpFunChat_SendMessage")
      /\ isConnected
      /\ WithRecord )
    => /\ sends = << Prop(Fields, "message") >>
       /\ IsTextResult(response)
       /\ "message" \in DOMAIN TextOf(response)
       /\ TextOf(response).message = ToTemplateString(Prop(Fields, "message"))

\* C7 witness: "hello" was passed on once and acknowledged in the turn of
\* the request.
C7_Witness ==
    /\ Called("PumpFunChat_SendMessage")
    /\ isConnected
    /\ sends = << JsString("hello") >>
    /\ IsTextResult(response)
    /\ TextOf(response).message = "hello"

\* C8: in every reachable state GetStatus succeeds, and its answer carries
\* the room identity, the label of the current connection state and the
\* current length of the message buffer.
C8_StatusReportsState ==
    /\ IsTextResult(handleGetStatus.response)
    /\ Called("PumpFunChat_GetStatus") =>
          /\ IsTextResult(response)
          /\ TextOf(response).token = token
          /\ TextOf(response).label = (IF isConnected THEN "Connected" ELSE "Disconnected")
          /\ TextOf(response).n = Len(messageBuffer)

\* C8 witness: GetStatus reports Connected and 1000 messages after more than
\* 1000 were delivered.
C8_Witness ==
    /\ Called("PumpFunChat_GetStatus")
    /\ isConnected
    /\ Len(received) > BufferCapacity
    /\ TextOf(response).label = "Connected"
    /\ TextOf(response).n = BufferCapacity

\* C9: a CallTool request whose name is not in the catalog is answered with
\* an RPC-level error, not a text result; and every name of the catalog is
\* dispatched to a handler, never rejected as unknown.
C9_UnknownToolIsRpcError ==
    /\ (CalledAny /\ request.params.name \notin CatalogNames) =>
          /\ IsRpcError(response)
          /\ ~IsTextResult(response)
          /\ response.error = UnknownToolError(request.params.name)
    /\ (CalledAny /\ request.params.name \in CatalogNames) =>
          (IsRpcError(response) => response.error # UnknownToolError(request.params.name))
    /\ \A name \in CatalogNames :
          Dispatch(WithArguments(name, NoFields)).response
              # RpcError(UnknownToolError(name))

\* C9 witness: the unknown name was rejected.
C9_Witness ==
    /\ Called(UnknownToolName)
    /\ IsRpcError(response)
    /\ response.error = UnknownToolError(UnknownToolName)

\* C10: every CallTool request whose name is in the catalog is answered with
\* a text result and never with an RPC-level error, in every connection
\* state and for every argument record, an omitted one included.
C10_CatalogToolsNeverFail ==
    (CalledAny /\ request.params.name \in CatalogNames) =>
        /\ IsTextResult(response)
        /\ ~IsRpcError(response)

\* the latest turn wrote `text` as its first line of stderr
Logged(text) == Len(stderr) > 0 /\ stderr[1].text = text

\* the latest turn handled this event
ConnectedLogged == Logged("Successfully connected to chat room for ${this.token}")
DisconnectedLogged == Logged("Disconnected from chat room")
MessageLogged == Logged("New message from ${message.username}: ${message.message}")
HistoryLogged == Logged("Received ${messages.length} historical messages")
ErrorLogged == Logged("Chat error:") \/ Logged("Server error:")

\* C11: the connection state starts Disconnected; a turn that handles
\* "connected" leaves it Connected, a turn that handles "disconnected"
\* leaves it Disconnected, from whatever state, and every other turn leaves
\* it as it was: it is Connected exactly when the latest lifecycle event was
\* "connected".
C11_FollowsLatestLifecycleEvent ==
    /\ ~isConnected
    /\ [][ /\ ConnectedLogged' => isConnected'
           /\ DisconnectedLogged' => ~isConnected'
           /\ ~(ConnectedLogged' \/ DisconnectedLogged') => isConnected' = isConnected ]_vars

\* C11 witness: a "connected" event was handled after messages had arrived
\* while disconnected, and a "disconnected" event can follow it.
C11_Witness ==
    /\ ConnectedLogged
    /\ isConnected
    /\ Len(received) > 0
    /\ ENABLED OnDisconnected

\* the lines a text result lists, none when it lists no message
ShownLines == IF "lines" \in DOMAIN TextOf(response) THEN TextOf(response).lines ELSE << >>

FreshStatus(room) ==
    TextResult(
        [ template |-> "Token: ${token}\nConnection Status: ${label}\nMessages in buffer: ${n}",
          token |-> room,
          label |-> "Disconnected",
          n |-> 0 ])

\* GetStatus, were it called now, would report the fresh status of the room
\* the process was launched for
ReportsFresh == handleGetStatus.response = FreshStatus(process.env.value)

\* C13: right after construction for room R GetStatus reports room R,
\* Disconnected and count 0, and it goes on reporting that through every
\* turn that handles neither a "connected" nor a "message" event.
C13_FreshUntilConnectedOrMessage ==
    [][ /\ (process.status = "launched" /\ Serving') => ReportsFresh'
        /\ (Serving /\ ReportsFresh /\ ~ConnectedLogged' /\ ~MessageLogged') => ReportsFresh' ]_vars

\* C13 witness: GetStatus answered room R, Disconnected, 0 after the room's
\* history had arrived and before any message.
C13_Witness ==
    /\ Called("PumpFunChat_GetStatus")
    /\ response = FreshStatus(process.env.value)
    /\ Len(client.messageHistory) > 0
    /\ Len(received) = 0

\* PUMP_FUN_TOKEN is not set, or set to the empty string
EnvTokenMissing ==
    \/ process.env.type = "undefined"
    \/ (process.env.type = "string" /\ process.env.value = "")

\* C14: a process launched without PUMP_FUN_TOKEN has, once its entry point
\* ran, exited with a non-zero code and constructed nothing: no collaborator
\* instance, no connect(), no Server, no tool handler.
C14_NoTokenExitsBeforeConstruction ==
    (EnvTokenMissing /\ process.status # "launched") =>
        /\ process.status = "exited"
        /\ process.exitCode # 0
        /\ instances = 0
        /\ IsNull(client)
        /\ IsNull(server)
        /\ ~isConnected

\* C14 witness: the process launched with an empty PUMP_FUN_TOKEN exited 1
\* after writing the usage lines.
C14_Witness ==
    /\ process.env.type = "string"
    /\ process.env.value = ""
    /\ process.status = "exited"
    /\ process.exitCode = 1
    /\ Logged("Error: PUMP_FUN_TOKEN environment variable is required")
    /\ IsNull(client)

\* C15: a process launched with the token as its command-line argument and
\* no PUMP_FUN_TOKEN accepts the argument as the room identity: once its
\* entry point ran, a bridge for that token was constructed.
C15_ArgumentTokenAccepted ==
    ( /\ process.env.type = "undefined"
      /\ Len(process.argv) > 0
      /\ process.status # "launched" )
    => /\ instances = 1
       /\ token = process.argv[1]
       /\ ~IsNull(client)

\* C16: a turn that handles "error" or "serverError", the authentication
\* failure included, leaves the connection state and the message buffer as
\* they were, and the process goes on serving.
C16_ErrorsChangeNothing ==
    [][ ErrorLogged' => (UNCHANGED << isConnected, messageBuffer >> /\ Serving') ]_vars

\* C16 witness: the authentication failure was handled while connected with
\* a message in the buffer.
C16_Witness ==
    /\ Logged("Server error:")
    /\ Len(stderr) = 2
    /\ isConnected
    /\ Len(messageBuffer) > 0
    /\ Serving

\* C17: a turn that handles "messageHistory" leaves the message buffer and
\* the connection state as they were.
C17_HistoryChangesNothing ==
    [][ HistoryLogged' => UNCHANGED << messageBuffer, isConnected >> ]_vars

\* C17 witness: a history of one message arrived while connected; the
\* collaborator holds it and the bridge's buffer holds only what "message"
\* events delivered.
C17_Witness ==
    /\ HistoryLogged
    /\ stderr[1].arg = MaxHistory
    /\ isConnected
    /\ Len(client.messageHistory) = MaxHistory
    /\ Len(messageBuffer) = Len(received)
    /\ Len(received) > 0

\* C18: a turn that handles a tool call leaves the message buffer, the
\* connection state and the room identity as they were; SendMessage hands
\* its text to the collaborator and adds nothing to the buffer.
C18_ToolCallsChangeNothing ==
    [][ CalledAny' => UNCHANGED << messageBuffer, isConnected, token >> ]_vars

\* C18 witness: SendMessage handed "hello" to the collaborator and the
\* buffer still holds exactly what was delivered.
C18_Witness ==
    /\ Called("PumpFunChat_SendMessage")
    /\ sends = << JsString("hello") >>
    /\ Len(received) > 0
    /\ messageBuffer = received

\* C19: a tool call is answered from one state, the one its turn started
\* in, which is still the state at the end of the turn: the answer and what
\* was sent are what the handler gives for the state the turn leaves.
C19_AnsweredFromOneState ==
    CalledAny =>
        /\ response = Dispatch(request).response
        /\ sends = Dispatch(request).sends

\* C19 witness: SendMessage checked the connection state and sent in the
\* same turn, and the connection is still up at the end of it.
C19_Witness ==
    /\ Called("PumpFunChat_SendMessage")
    /\ Len(sends) = 1
    /\ isConnected
    /\ Len(received) > 0

\* C20: at most one collaborator instance is ever constructed; once it is,
\* it is the one the bridge holds, bound to the room identity, and it has
\* been asked to connect exactly once and to disconnect never, whatever
\* events were handled since.
C20_OneInstanceOneConnect ==
    /\ instances <= 1
    /\ Serving => ~IsNull(client)
    /\ ~IsNull(client) =>
          /\ instances = 1
          /\ client.roomId = token
          /\ client.connectCalls = 1
          /\ client.disconnectCalls = 0

\* C20 witness: a "disconnected" event was handled after a message and the
\* collaborator has still been asked to connect once.
C20_Witness ==
    /\ DisconnectedLogged
    /\ Len(received) > 0
    /\ instances = 1
    /\ client.connectCalls = 1

\* a PumpFunChatServer has been constructed
Constructed == instances > 0

\* C21: once the bridge is constructed, its room identity, the roomId of
\* its collaborator and the token GetStatus reports are the value the
\* process was launched with, in every state, and no turn changes the room
\* identity.
C21_RoomIdentityFixed ==
    /\ Constructed =>
          /\ token = process.env.value
          /\ client.roomId = process.env.value
          /\ TextOf(handleGetStatus.response).token = process.env.value
    /\ Called("PumpFunChat_GetStatus") => TextOf(response).token = process.env.value

\* C21 witness: GetStatus reported the launch token while connected, after
\* the room had delivered messages.
C21_Witness ==
    /\ Called("PumpFunChat_GetStatus")
    /\ TextOf(response).token = process.env.value
    /\ client.roomId = process.env.value
    /\ isConnected
    /\ Len(received) >= MaxVaried

\* C22: whatever SendMessage request is handled, every value handed to the
\* collaborator's send is a non-empty string; a missing or empty `message`
\* is not handed over.
C22_SendsOnlyNonEmptyStrings ==
    \A i \in 1..Len(sends) :
        /\ sends[i].type = "string"
        /\ sends[i].value # ""

\* what ReadMessages answers in this state to a request without a limit
ReadAllResponse == handleReadMessages(JsObject(NoFields)).response

\* how many messages that answer lists
ReadAllCount ==
    IF "lines" \in DOMAIN TextOf(ReadAllResponse)
    THEN Len(TextOf(ReadAllResponse).lines)
    ELSE 0

\* the count GetStatus reports in this state
StatusCount == TextOf(handleGetStatus.response).n

C24_BufferedWhileDisconnected ==
    [][ (MessageLogged' /\ ~isConnected) =>
            /\ Len(messageBuffer') = Min(Len(messageBuffer) + 1, BufferCapacity)
            /\ messageBuffer'[Len(messageBuffer')] = stderr'[1].arg
            /\ StatusCount' = Len(messageBuffer')
            /\ ~isConnected' ]_vars

\* C24 witness: a second message arrived while disconnected and GetStatus
\* would count both.
C24_Witness ==
    /\ MessageLogged
    /\ ~isConnected
    /\ Len(received) = 2
    /\ messageBuffer[2] = stderr[1].arg
    /\ StatusCount = 2

\* C25: a turn changes the message buffer only if it handles "message"; no
\* turn makes the buffer shorter; a turn that handles "connected" or
\* "disconnected" leaves the buffer exactly as it was.
C25_OnlyMessagesChangeBuffer ==
    [][ /\ messageBuffer' # messageBuffer => MessageLogged'
        /\ Len(messageBuffer') >= Len(messageBuffer)
        /\ (ConnectedLogged' \/ DisconnectedLogged') => messageBuffer' = messageBuffer ]_vars

\* C25 witness: a "connected" event was handled with two messages in the
\* buffer, and both are still there.
C25_Witness ==
    /\ ConnectedLogged
    /\ Len(received) = 2
    /\ messageBuffer = received

====
